---- MODULE Spec2Model ----
(***************************************************************************)
(* Model of pkg/scanners/kubernetes/scanner.go: the Scanner type, its      *)
(* option setters, the lazily built and cached rego engine                 *)
(* (initRegoScanner) and the two scan entry points (ScanFS, ScanReader),   *)
(* run by several goroutines on shared Scanner instances.                  *)
(*                                                                         *)
(* The parser, the rego engine and the in-memory filesystem are other      *)
(* packages; they appear here only through the calls scanner.go makes on   *)
(* them, with every outcome those calls can have (a value or an error).    *)
(***************************************************************************)
EXTENDS Integers, Sequences, FiniteSets, TLC

\* ------------------------------------------------------------------ bounds
\* scan calls issued in one behaviour, each by a goroutine of its own
MaxCalls == 2
\* option-setter calls issued in one behaviour
MaxSets == 1

\* the goroutines, numbered in the order in which their calls start
Procs == 1..MaxCalls
Scanners == {"s1", "s2"}

\* ------------------------------------------------------- values and handles
\* fs.FS handles: the caller's filesystems and the memoryfs of each ScanReader call
NoFS == <<"none", 0>>
UserFS == {<<"fs", 1>>, <<"fs", 2>>, <<"fs", 3>>}
MemFS(p) == <<"memfs", p>>
Handles == UserFS \cup {MemFS(p) : p \in Procs}

\* a path: the sequence of its elements, "dir/pod.yaml" being <<"dir", "pod.yaml">>

\* a file's bytes: a sequence of manifests, "T" one whose field X is true and
\* "F" one whose field X is false; NotK8s is a file the parser does not recognise
Tokens == {"T", "F"}
NotK8s == <<"#">>
NoFiles == [x \in {} |-> <<>>]

\* error values of the collaborators
NoErr == "nil"
ParseErrs == {"ParseError", "context canceled"}
LoadErrs == {"PolicyLoadError"}
EvalErrs == {"EvaluationError", "context deadline exceeded"}
IOErrs == {"mkdir: IOError", "read: IOError", "write: IOError"}
\* what memoryfs answers when the directory of a path does not exist
ErrNotExist == "file does not exist"

\* scan.Results: a nil slice or a slice of findings
NilResults == [isNil |-> TRUE, items |-> <<>>]
Results(items) == [isNil |-> FALSE, items |-> items]

\* the zero value of the policy-loading fields of a Scanner
ZeroCfg == [loadEmbedded |-> FALSE, policyDirs |-> <<>>, policyReaders |-> <<>>]
DirChoices == {<<"policies/">>}
ReaderChoices == {<<"rule.rego">>}

VARIABLES
    live,          \* the Scanner instances that exist
    regoScanner,   \* Scanner.regoScanner per instance: 0 is nil, else an engine id
    mu,            \* Scanner's embedded sync.Mutex per instance: 0 free, else the holder
    cfg,           \* Scanner.loadEmbedded, policyDirs, policyReaders per instance
    engines,       \* every rego.Scanner built so far, by id: owner, what was loaded, state
    newCalls,      \* rego.NewScanner calls per instance
    loadCalls,     \* LoadPolicies calls per instance
    nsets,         \* option-setter calls so far
    tree,          \* the files of each filesystem handle: path -> bytes
    pc,            \* where each goroutine is in its scan call
    self,          \* the Scanner the goroutine's call is on
    entry,         \* the entry point of the call
    stream,        \* ScanReader's filename and the bytes its reader holds
    target,        \* ScanFS's target
    k8sFilesets,   \* ScanFS's k8sFilesets
    inputs,        \* ScanFS's inputs
    eng,           \* the rego.Scanner the call holds (initRegoScanner's local, then ScanFS's)
    ret,           \* what the call returned: results and error
    trace          \* the steps the call has taken, in order

vars == <<live, regoScanner, mu, cfg, engines, newCalls, loadCalls, nsets,
          tree, pc, self, entry, stream, target, k8sFilesets, inputs, eng, ret, trace>>

shared == <<regoScanner, mu, cfg, engines, newCalls, loadCalls>>
locals == <<pc, self, entry, stream, target, k8sFilesets, inputs, eng, ret, trace>>

NoRet == [res |-> NilResults, err |-> NoErr]
NoStream == [filename |-> <<>>, data |-> <<>>]

\* ---------------------------------------------------------------- the parser
\* parser.ParseFS(ctx, target, dir) on success: every recognised file under dir,
\* by path, with its manifests in file order; unrecognised files are left out
ParseFS(files) ==
    LET seen == {path \in DOMAIN files : files[path] # NotK8s}
    IN [path \in seen |->
           [i \in 1..Len(files[path]) |-> [X |-> files[path][i] = "T"]]]

\* --------------------------------------------------------- the input adapter
\* the orders in which a range loop can visit the keys of a map
RECURSIVE MapOrders(_)
MapOrders(keys) ==
    IF keys = {} THEN {<<>>}
    ELSE UNION {{<<k>> \o rest : rest \in MapOrders(keys \ {k})} : k \in keys}

\* the inner loop as it would be if every input took the last document of the path
InputsOfLastContent(path, k8sFiles, fsys) ==
    [i \in 1..Len(k8sFiles) |->
        [Path |-> path, FS |-> fsys, Contents |-> k8sFiles[Len(k8sFiles)]]]

\* the inner loop of ScanFS: one rego.Input per document of one path
InputsOf(path, k8sFiles, fsys) ==
    [i \in 1..Len(k8sFiles) |-> [Path |-> path, FS |-> fsys, Contents |-> k8sFiles[i]]]

\* the outer loop of ScanFS, visiting the paths in the given order
RECURSIVE BuildInputs(_, _, _)
BuildInputs(filesets, order, fsys) ==
    IF order = <<>> THEN <<>>
    ELSE InputsOf(Head(order), filesets[Head(order)], fsys)
            \o BuildInputs(filesets, Tail(order), fsys)

\* ---------------------------------------------------------------- the engine
\* what LoadPolicies loads: the embedded rules if asked for, then each policy
\* directory, then each reader
RulesOf(c) ==
    (IF c.loadEmbedded THEN <<"embedded">> ELSE <<>>) \o c.policyDirs \o c.policyReaders

\* one rule, "fail if X is false", on one input: a finding without provenance
Finding(rule, in) ==
    [rule |-> rule, status |-> IF in.Contents.X THEN "passed" ELSE "failed",
     path |-> in.Path, source |-> "unset", fs |-> NoFS, mixed |-> TRUE, nset |-> 0]

\* regoScanner.ScanInput(ctx, inputs...) on success: every rule on every input
RECURSIVE ScanInput(_, _)
ScanInput(rules, ins) ==
    IF ins = <<>> THEN <<>>
    ELSE [r \in 1..Len(rules) |-> Finding(rules[r], Head(ins))]
            \o ScanInput(rules, Tail(ins))

\* results.SetSourceAndFilesystem(source, fsys, mixed): on every finding
SetSourceAndFilesystem(items, source, fsys, mixed) ==
    [i \in 1..Len(items) |->
        [items[i] EXCEPT !.source = source, !.fs = fsys, !.mixed = mixed,
                         !.nset = @ + 1]]

\* ------------------------------------------------------------------- Init
\* the caller's filesystems: one with two manifests in a file, one whose only
\* file holds no manifest, one with nothing the parser recognises
UserTree ==
    (<<"fs", 1>> :> (<<"a.yaml">> :> <<"F", "T">>))
    @@ (<<"fs", 2>> :> (<<"a.yaml">> :> <<>>))
    @@ (<<"fs", 3>> :> (<<"README">> :> NotK8s))

\* the engine a scanner with no option set builds in a first ScanFS on fs 1
FirstEngine(s) == [owner |-> s, state |-> "loaded", cfg |-> ZeroCfg, fs |-> <<"fs", 1>>]

\* the instances of insts, built by NewScanner(opts...) whose options left c in
\* the policy-loading fields, no goroutine in a call yet, the caller's
\* filesystems holding files; each instance of used has served one ScanFS on
\* fs 1 already, whose goroutine is gone
InitOf(insts, used, c, files) ==
    /\ live = insts
    /\ regoScanner = [s \in Scanners |-> IF s \in used THEN 1 ELSE 0]
    /\ mu = [s \in Scanners |-> 0]
    /\ cfg = [s \in Scanners |-> c]
    /\ engines = IF used = {} THEN <<>> ELSE <<[FirstEngine("s1") EXCEPT !.cfg = c]>>
    /\ newCalls = [s \in Scanners |-> IF s \in used THEN 1 ELSE 0]
    /\ loadCalls = [s \in Scanners |-> IF s \in used THEN 1 ELSE 0]
    /\ nsets = 0
    /\ tree = [h \in Handles |-> IF h \in UserFS THEN files[h] ELSE NoFiles]
    /\ pc = [p \in Procs |-> "idle"]
    /\ self = [p \in Procs |-> "s1"]
    /\ entry = [p \in Procs |-> "none"]
    /\ stream = [p \in Procs |-> NoStream]
    /\ target = [p \in Procs |-> NoFS]
    /\ k8sFilesets = [p \in Procs |-> NoFiles]
    /\ inputs = [p \in Procs |-> <<>>]
    /\ eng = [p \in Procs |-> 0]
    /\ ret = [p \in Procs |-> NoRet]
    /\ trace = [p \in Procs |-> <<>>]

\* the same with NewScanner() called without options, on the filesystems of UserTree
InitWith(insts, used) == InitOf(insts, used, ZeroCfg, UserTree)

Init == \E used \in {{}, {"s1"}} : InitWith({"s1"}, used)

\* ------------------------------------------------------------ option setters
SetUseEmbeddedPolicies(s, b) ==
    /\ nsets < MaxSets
    /\ nsets' = nsets + 1
    /\ cfg' = [cfg EXCEPT ![s].loadEmbedded = b]
    /\ UNCHANGED <<live, regoScanner, mu, engines, newCalls, loadCalls, tree>>
    /\ UNCHANGED locals

SetPolicyReaders(s, readers) ==
    /\ nsets < MaxSets
    /\ nsets' = nsets + 1
    /\ cfg' = [cfg EXCEPT ![s].policyReaders = readers]
    /\ UNCHANGED <<live, regoScanner, mu, engines, newCalls, loadCalls, tree>>
    /\ UNCHANGED locals

\* the setter as it would be if it dropped the cached engine
SetPolicyDirsReset(s, dirs) ==
    /\ nsets < MaxSets
    /\ nsets' = nsets + 1
    /\ cfg' = [cfg EXCEPT ![s].policyDirs = dirs]
    /\ regoScanner' = [regoScanner EXCEPT ![s] = 0]
    /\ UNCHANGED <<live, mu, engines, newCalls, loadCalls, tree>>
    /\ UNCHANGED locals

SetPolicyDirs(s, dirs) ==
    /\ nsets < MaxSets
    /\ nsets' = nsets + 1
    /\ cfg' = [cfg EXCEPT ![s].policyDirs = dirs]
    /\ UNCHANGED <<live, regoScanner, mu, engines, newCalls, loadCalls, tree>>
    /\ UNCHANGED locals

\* ------------------------------------------------------------------- calls
\* a goroutine that has not made its call yet, and whose turn it is to start
Idle(p) ==
    /\ pc[p] = "idle"
    /\ \A q \in 1..(p - 1) : pc[q] # "idle"

\* the locals of a call that has just been entered
Enter(p, s, e, t, at) ==
    /\ pc' = [pc EXCEPT ![p] = at]
    /\ self' = [self EXCEPT ![p] = s]
    /\ entry' = [entry EXCEPT ![p] = e]
    /\ target' = [target EXCEPT ![p] = t]
    /\ eng' = [eng EXCEPT ![p] = 0]
    /\ UNCHANGED <<k8sFilesets, inputs>>

\* the call returns r, and its locals are gone
Return(p, r) ==
    /\ pc' = [pc EXCEPT ![p] = "done"]
    /\ k8sFilesets' = [k8sFilesets EXCEPT ![p] = NoFiles]
    /\ inputs' = [inputs EXCEPT ![p] = <<>>]
    /\ ret' = [ret EXCEPT ![p] = r]

Step(p, names) == trace' = [trace EXCEPT ![p] = @ \o names]

\* a goroutine calls s.ScanFS(ctx, t, ".")
CallScanFS(p, s, t) ==
    /\ Idle(p)
    /\ Enter(p, s, "ScanFS", t, "parse")
    /\ stream' = [stream EXCEPT ![p] = NoStream]
    /\ ret' = [ret EXCEPT ![p] = NoRet]
    /\ trace' = [trace EXCEPT ![p] = <<>>]
    /\ UNCHANGED <<live, nsets, tree>>
    /\ UNCHANGED shared

\* filepath.Base(filename): the last element of the path
Base(path) == <<path[Len(path)]>>

\* the directories of a fresh memoryfs after MkdirAll(path): path and its parents
MkdirAll(path) == {SubSeq(path, 1, n) : n \in 1..Len(path)}

\* memfs.WriteFile(path, data, 0o644) on a memoryfs with the directories dirs:
\* the file is written into its directory, which must exist; no directory is made
WriteFile(dirs, path) ==
    IF Len(path) = 1 \/ SubSeq(path, 1, Len(path) - 1) \in dirs
    THEN NoErr ELSE ErrNotExist

\* the directories of the memoryfs when WriteFile is reached: MkdirAll(filepath.Base(filename))
MemDirs(filename) == MkdirAll(Base(filename))

\* a goroutine calls s.ScanReader(ctx, filename, reader), the reader holding data:
\* a fresh memoryfs, MkdirAll, io.ReadAll, WriteFile, each of which can fail
\* (ioerr, a fault of its own, or the missing directory of the file), then
\* ScanFS on the memoryfs; the parser sees the files of the memoryfs, an empty
\* directory holding nothing for it
ScanReader(p, s, filename, data, ioerr) ==
    /\ Idle(p)
    /\ trace' = [trace EXCEPT ![p] = <<"memfs">>]
    /\ stream' = [stream EXCEPT ![p] = [filename |-> filename, data |-> data]]
    /\ UNCHANGED <<live, nsets>>
    /\ UNCHANGED shared
    /\ LET err == IF ioerr # NoErr THEN ioerr ELSE WriteFile(MemDirs(filename), filename)
       IN IF err # NoErr
          THEN /\ Enter(p, s, "ScanReader", MemFS(p), "done")
               /\ ret' = [ret EXCEPT ![p] = [res |-> NilResults, err |-> err]]
               /\ tree' = [tree EXCEPT ![MemFS(p)] = NoFiles]
          ELSE /\ Enter(p, s, "ScanReader", MemFS(p), "parse")
               /\ ret' = [ret EXCEPT ![p] = NoRet]
               /\ tree' = [tree EXCEPT ![MemFS(p)] = filename :> data]

\* the return as it would be if the parser's error were dropped
ParseErrDropped(err) == [res |-> NilResults, err |-> NoErr]

\* if err != nil { return nil, err } after ParseFS
ParseErrReturn(err) == [res |-> NilResults, err |-> err]

\* ScanFS: s.parser.ParseFS fails with err
ParseFail(p, err) ==
    /\ pc[p] = "parse"
    /\ Step(p, <<"parseErr", err>>)
    /\ Return(p, ParseErrReturn(err))
    /\ UNCHANGED <<live, nsets, tree, self, entry, stream, target, eng>>
    /\ UNCHANGED shared

\* the test as it would be without the short circuit
EmptyFilesetsNever(m) == FALSE

\* if len(k8sFilesets) == 0
EmptyFilesets(m) == DOMAIN m = {}

\* ScanFS: s.parser.ParseFS succeeds; an empty mapping ends the call
Parse(p) ==
    /\ pc[p] = "parse"
    /\ Step(p, <<"parse">>)
    /\ LET m == ParseFS(tree[target[p]])
       IN IF EmptyFilesets(m)
          THEN Return(p, NoRet)
          ELSE /\ k8sFilesets' = [k8sFilesets EXCEPT ![p] = m]
               /\ pc' = [pc EXCEPT ![p] = "inputs"]
               /\ UNCHANGED <<ret, inputs>>
    /\ UNCHANGED <<live, nsets, tree, self, entry, stream, target, eng>>
    /\ UNCHANGED shared

\* ScanFS: the loops that build inputs, the map visited in some order
Flatten(p, order) ==
    /\ pc[p] = "inputs"
    /\ order \in MapOrders(DOMAIN k8sFilesets[p])
    /\ Step(p, <<"inputs">>)
    /\ inputs' = [inputs EXCEPT ![p] = BuildInputs(k8sFilesets[p], order, target[p])]
    /\ pc' = [pc EXCEPT ![p] = "lock"]
    /\ UNCHANGED <<live, nsets, tree, self, entry, stream, target, k8sFilesets, eng, ret>>
    /\ UNCHANGED shared

\* ---------------------------------------------------------- initRegoScanner
\* Lock as it would be if the mutex did not exclude
LockRacy(p) ==
    /\ pc[p] = "lock"
    /\ mu' = [mu EXCEPT ![self[p]] = p]
    /\ trace' = [trace EXCEPT ![p] = @ \o <<"lock">>]
    /\ pc' = [pc EXCEPT ![p] = "check"]
    /\ UNCHANGED <<live, regoScanner, cfg, engines, newCalls, loadCalls, nsets, tree,
                   self, entry, stream, target, k8sFilesets, inputs, eng, ret>>

\* Lock as it would be with one mutex for all the scanners of the process
LockGlobal(p) ==
    /\ pc[p] = "lock"
    /\ \A s \in live : mu[s] = 0
    /\ mu' = [mu EXCEPT ![self[p]] = p]
    /\ trace' = [trace EXCEPT ![p] = @ \o <<"lock">>]
    /\ pc' = [pc EXCEPT ![p] = "check"]
    /\ UNCHANGED <<live, regoScanner, cfg, engines, newCalls, loadCalls, nsets, tree,
                   self, entry, stream, target, k8sFilesets, inputs, eng, ret>>

\* s.Lock(): waits until the mutex is free
Lock(p) ==
    /\ pc[p] = "lock"
    /\ mu[self[p]] = 0
    /\ mu' = [mu EXCEPT ![self[p]] = p]
    /\ Step(p, <<"lock">>)
    /\ pc' = [pc EXCEPT ![p] = "check"]
    /\ UNCHANGED <<live, regoScanner, cfg, engines, newCalls, loadCalls, nsets, tree,
                   self, entry, stream, target, k8sFilesets, inputs, eng, ret>>

\* the check as it would be if the cache were never consulted
CacheHitNever(s) == FALSE

\* the check as it would be if a changed configuration invalidated the cache
CacheHitFresh(s) == regoScanner[s] # 0 /\ engines[regoScanner[s]].cfg = cfg[s]

\* the check as it would be if the cache were keyed by the filesystem as well
CacheHitSameFS(s) == regoScanner[s] # 0 /\ engines[regoScanner[s]].fs = target[mu[s]]

\* if s.regoScanner != nil
CacheHit(s) == regoScanner[s] # 0

\* the hit path as it would be without the deferred Unlock
CheckCacheNoUnlock(p) ==
    /\ pc[p] = "check"
    /\ IF regoScanner[self[p]] # 0
       THEN /\ eng' = [eng EXCEPT ![p] = regoScanner[self[p]]]
            /\ trace' = [trace EXCEPT ![p] = @ \o <<"check">>]
            /\ pc' = [pc EXCEPT ![p] = "eval"]
       ELSE /\ trace' = [trace EXCEPT ![p] = @ \o <<"check">>]
            /\ pc' = [pc EXCEPT ![p] = "new"]
            /\ UNCHANGED eng
    /\ UNCHANGED <<live, regoScanner, mu, cfg, engines, newCalls, loadCalls, nsets, tree,
                   self, entry, stream, target, k8sFilesets, inputs, ret>>

\* the cached engine is returned and the deferred Unlock runs; or the call goes
\* on to build an engine, the mutex still held
CheckCache(p) ==
    /\ pc[p] = "check"
    /\ IF CacheHit(self[p])
       THEN /\ eng' = [eng EXCEPT ![p] = regoScanner[self[p]]]
            /\ mu' = [mu EXCEPT ![self[p]] = 0]
            /\ Step(p, <<"check", "unlock">>)
            /\ pc' = [pc EXCEPT ![p] = "eval"]
       ELSE /\ Step(p, <<"check">>)
            /\ pc' = [pc EXCEPT ![p] = "new"]
            /\ UNCHANGED <<eng, mu>>
    /\ UNCHANGED <<live, regoScanner, cfg, engines, newCalls, loadCalls, nsets, tree,
                   self, entry, stream, target, k8sFilesets, inputs, ret>>

\* the construction as it would be if the new engine were put in the cache
\* before its policies are loaded
NewRegoScannerCached(p) ==
    /\ pc[p] = "new"
    /\ engines' = Append(engines,
                         [owner |-> self[p], state |-> "new", cfg |-> ZeroCfg, fs |-> NoFS])
    /\ eng' = [eng EXCEPT ![p] = Len(engines) + 1]
    /\ regoScanner' = [regoScanner EXCEPT ![self[p]] = Len(engines) + 1]
    /\ newCalls' = [newCalls EXCEPT ![self[p]] = @ + 1]
    /\ trace' = [trace EXCEPT ![p] = @ \o <<"new">>]
    /\ pc' = [pc EXCEPT ![p] = "load"]
    /\ UNCHANGED <<live, mu, cfg, loadCalls, nsets, tree,
                   self, entry, stream, target, k8sFilesets, inputs, ret>>

\* rego.NewScanner(types.SourceKubernetes, s.options...) and SetParentDebugLogger:
\* a fresh engine with nothing loaded, known to this call alone
NewRegoScanner(p) ==
    /\ pc[p] = "new"
    /\ engines' = Append(engines,
                         [owner |-> self[p], state |-> "new", cfg |-> ZeroCfg, fs |-> NoFS])
    /\ eng' = [eng EXCEPT ![p] = Len(engines) + 1]
    /\ newCalls' = [newCalls EXCEPT ![self[p]] = @ + 1]
    /\ Step(p, <<"new">>)
    /\ pc' = [pc EXCEPT ![p] = "load"]
    /\ UNCHANGED <<live, regoScanner, mu, cfg, loadCalls, nsets, tree,
                   self, entry, stream, target, k8sFilesets, inputs, ret>>

\* the load as it would be if it emptied the scanner's policyReaders field
\* once the readers are consumed
LoadPoliciesDrain(p) ==
    /\ pc[p] = "load"
    /\ engines' = [engines EXCEPT ![eng[p]] =
                      [@ EXCEPT !.state = "loaded", !.cfg = cfg[self[p]], !.fs = target[p]]]
    /\ cfg' = [cfg EXCEPT ![self[p]].policyReaders = <<>>]
    /\ loadCalls' = [loadCalls EXCEPT ![self[p]] = @ + 1]
    /\ trace' = [trace EXCEPT ![p] = @ \o <<"load">>]
    /\ pc' = [pc EXCEPT ![p] = "store"]
    /\ UNCHANGED <<live, regoScanner, mu, newCalls, nsets, tree,
                   self, entry, stream, target, k8sFilesets, inputs, eng, ret>>

\* regoScanner.LoadPolicies(s.loadEmbedded, srcFS, s.policyDirs, s.policyReaders)
\* succeeds: the engine holds the rules of the fields as they are now
LoadPolicies(p) ==
    /\ pc[p] = "load"
    /\ engines' = [engines EXCEPT ![eng[p]] =
                      [@ EXCEPT !.state = "loaded", !.cfg = cfg[self[p]], !.fs = target[p]]]
    /\ loadCalls' = [loadCalls EXCEPT ![self[p]] = @ + 1]
    /\ Step(p, <<"load">>)
    /\ pc' = [pc EXCEPT ![p] = "store"]
    /\ UNCHANGED <<live, regoScanner, mu, cfg, newCalls, nsets, tree,
                   self, entry, stream, target, k8sFilesets, inputs, eng, ret>>

\* if err != nil { return nil, err }, in initRegoScanner and again in ScanFS
LoadErrReturn(err) == [res |-> NilResults, err |-> err]

\* the failure path as it would be if the engine were cached before the error
\* of LoadPolicies is looked at
LoadPoliciesFailCached(p, err) ==
    /\ pc[p] = "load"
    /\ engines' = [engines EXCEPT ![eng[p]] =
                      [@ EXCEPT !.state = "failed", !.cfg = cfg[self[p]], !.fs = target[p]]]
    /\ loadCalls' = [loadCalls EXCEPT ![self[p]] = @ + 1]
    /\ regoScanner' = [regoScanner EXCEPT ![self[p]] = eng[p]]
    /\ eng' = [eng EXCEPT ![p] = 0]
    /\ mu' = [mu EXCEPT ![self[p]] = 0]
    /\ trace' = [trace EXCEPT ![p] = @ \o <<"loadErr", err, "unlock">>]
    /\ pc' = [pc EXCEPT ![p] = "done"]
    /\ k8sFilesets' = [k8sFilesets EXCEPT ![p] = NoFiles]
    /\ inputs' = [inputs EXCEPT ![p] = <<>>]
    /\ ret' = [ret EXCEPT ![p] = [res |-> NilResults, err |-> err]]
    /\ UNCHANGED <<live, cfg, newCalls, nsets, tree, self, entry, stream, target>>

\* LoadPolicies fails with err: initRegoScanner returns, the deferred Unlock
\* runs, and ScanFS returns
LoadPoliciesFail(p, err) ==
    /\ pc[p] = "load"
    /\ engines' = [engines EXCEPT ![eng[p]] =
                      [@ EXCEPT !.state = "failed", !.cfg = cfg[self[p]], !.fs = target[p]]]
    /\ loadCalls' = [loadCalls EXCEPT ![self[p]] = @ + 1]
    /\ eng' = [eng EXCEPT ![p] = 0]
    /\ mu' = [mu EXCEPT ![self[p]] = 0]
    /\ Step(p, <<"loadErr", err, "unlock">>)
    /\ Return(p, LoadErrReturn(err))
    /\ UNCHANGED <<live, regoScanner, cfg, newCalls, nsets, tree,
                   self, entry, stream, target>>

\* s.regoScanner = regoScanner; return regoScanner, nil; the deferred Unlock runs
StoreEngine(p) ==
    /\ pc[p] = "store"
    /\ regoScanner' = [regoScanner EXCEPT ![self[p]] = eng[p]]
    /\ mu' = [mu EXCEPT ![self[p]] = 0]
    /\ Step(p, <<"store", "unlock">>)
    /\ pc' = [pc EXCEPT ![p] = "eval"]
    /\ UNCHANGED <<live, cfg, engines, newCalls, loadCalls, nsets, tree,
                   self, entry, stream, target, k8sFilesets, inputs, eng, ret>>

\* ------------------------------------------------------------- evaluation
\* the return as it would be if the results came back along with the error
EvalErrWithResults(err) == [res |-> Results(<<>>), err |-> err]

\* if err != nil { return nil, err } after ScanInput
EvalErrReturn(err) == [res |-> NilResults, err |-> err]

\* the failure as it would be if ScanFS tried the evaluation again
ScanInputFailRetry(p, err) ==
    /\ pc[p] = "eval"
    /\ trace' = [trace EXCEPT ![p] = @ \o <<"evalErr", err>>]
    /\ UNCHANGED <<live, nsets, tree, pc, self, entry, stream, target,
                   k8sFilesets, inputs, eng, ret>>
    /\ UNCHANGED shared

\* regoScanner.ScanInput(ctx, inputs...) fails with err
ScanInputFail(p, err) ==
    /\ pc[p] = "eval"
    /\ Step(p, <<"evalErr", err>>)
    /\ Return(p, EvalErrReturn(err))
    /\ UNCHANGED <<live, nsets, tree, self, entry, stream, target, eng>>
    /\ UNCHANGED shared

\* the evaluation as it would be if the inputs were not handed to ScanInput
EvaluateNoInputs(p) ==
    /\ pc[p] = "eval"
    /\ trace' = [trace EXCEPT ![p] = @ \o <<"eval", "annotate">>]
    /\ pc' = [pc EXCEPT ![p] = "done"]
    /\ k8sFilesets' = [k8sFilesets EXCEPT ![p] = NoFiles]
    /\ inputs' = [inputs EXCEPT ![p] = <<>>]
    /\ ret' = [ret EXCEPT ![p] = [res |-> Results(<<>>), err |-> NoErr]]
    /\ UNCHANGED <<live, nsets, tree, self, entry, stream, target, eng>>
    /\ UNCHANGED shared

\* the annotation as it would be with the mixed-filesystem flag set
AnnotateMixed(items, fsys) == SetSourceAndFilesystem(items, "", fsys, TRUE)

\* results.SetSourceAndFilesystem("", target, false)
Annotate(items, fsys) == SetSourceAndFilesystem(items, "", fsys, FALSE)

\* ScanInput succeeds on all the inputs at once; the results are annotated and
\* returned
Evaluate(p) ==
    /\ pc[p] = "eval"
    /\ Step(p, <<"eval", "annotate">>)
    /\ LET results == ScanInput(RulesOf(engines[eng[p]].cfg), inputs[p])
       IN Return(p, [res |-> Results(Annotate(results, target[p])), err |-> NoErr])
    /\ UNCHANGED <<live, nsets, tree, self, entry, stream, target, eng>>
    /\ UNCHANGED shared

\* ------------------------------------------------------------------- Next
Filenames == {<<"pod.yaml">>}
Streams == {<<"F">>}

Next ==
    \/ \E s \in live, b \in BOOLEAN : SetUseEmbeddedPolicies(s, b)
    \/ \E s \in live, r \in ReaderChoices : SetPolicyReaders(s, r)
    \/ \E s \in live, d \in DirChoices : SetPolicyDirs(s, d)
    \/ \E p \in Procs, s \in live, t \in UserFS : CallScanFS(p, s, t)
    \/ \E p \in Procs, s \in live, f \in Filenames, d \in Streams,
          e \in IOErrs \cup {NoErr} : ScanReader(p, s, f, d, e)
    \/ \E p \in Procs, e \in ParseErrs : ParseFail(p, e)
    \/ \E p \in Procs : Parse(p)
    \/ \E p \in Procs : \E o \in MapOrders(DOMAIN k8sFilesets[p]) : Flatten(p, o)
    \/ \E p \in Procs : Lock(p)
    \/ \E p \in Procs : CheckCache(p)
    \/ \E p \in Procs : NewRegoScanner(p)
    \/ \E p \in Procs : LoadPolicies(p)
    \/ \E p \in Procs, e \in LoadErrs : LoadPoliciesFail(p, e)
    \/ \E p \in Procs : StoreEngine(p)
    \/ \E p \in Procs, e \in EvalErrs : ScanInputFail(p, e)
    \/ \E p \in Procs : Evaluate(p)

Spec == Init /\ [][Next]_vars

\* ------------------------------------------- scans issued one after the other
\* one scanner built with policy options, whose scans are issued one after the
\* other: fs 1 holds one file, and every ScanReader is given the name and the
\* bytes of that file; fs 2 holds several files, fs 3 one manifest whose field X
\* is true
StreamNames == {<<"pod.yaml">>, <<"dir", "pod.yaml">>}
StreamData == {<<"T">>, <<"F">>, <<"F", "T">>, NotK8s}
OptionCfgs ==
    {[ZeroCfg EXCEPT !.policyReaders = <<"rule.rego">>],
     [ZeroCfg EXCEPT !.loadEmbedded = TRUE, !.policyReaders = <<"rule.rego">>]}

FileTree(f, d) ==
    (<<"fs", 1>> :> (f :> d))
    @@ (<<"fs", 2>> :> ((<<"a.yaml">> :> <<"F", "T", "T">>) @@ (<<"b.yaml">> :> <<"T">>)
                        @@ (<<"c.yaml">> :> <<>>) @@ (<<"README">> :> NotK8s)))
    @@ (<<"fs", 3>> :> (<<"t.yaml">> :> <<"T">>))

InitFiles ==
    \E f \in StreamNames, d \in StreamData, c \in OptionCfgs :
        InitOf({"s1"}, {}, c, FileTree(f, d))

\* no call is running
Quiet == \A q \in Procs : pc[q] \in {"idle", "done"}

\* the one file of fs 1
OneFile == CHOOSE f \in DOMAIN tree[<<"fs", 1>>] : TRUE

NextFiles ==
    \/ \E p \in Procs, t \in UserFS : Quiet /\ CallScanFS(p, "s1", t)
    \/ \E p \in Procs, e \in IOErrs \cup {NoErr} :
          Quiet /\ ScanReader(p, "s1", OneFile, tree[<<"fs", 1>>][OneFile], e)
    \/ \E p \in Procs, e \in ParseErrs : ParseFail(p, e)
    \/ \E p \in Procs : Parse(p)
    \/ \E p \in Procs : \E o \in MapOrders(DOMAIN k8sFilesets[p]) : Flatten(p, o)
    \/ \E p \in Procs : Lock(p)
    \/ \E p \in Procs : CheckCache(p)
    \/ \E p \in Procs : NewRegoScanner(p)
    \/ \E p \in Procs : LoadPolicies(p)
    \/ \E p \in Procs, e \in LoadErrs : LoadPoliciesFail(p, e)
    \/ \E p \in Procs : StoreEngine(p)
    \/ \E p \in Procs, e \in EvalErrs : ScanInputFail(p, e)
    \/ \E p \in Procs : Evaluate(p)

SpecFiles == InitFiles /\ [][NextFiles]_vars

\* ------------------------------------------------- two Scanner instances
\* two independent scanners, each made by its own NewScanner(), whose scans run
\* at the same time
InitTwo == \E used \in {{}, {"s1"}} : InitWith({"s1", "s2"}, used)

\* every call is a ScanFS, on any scanner there is; no option is set
NextScanFS ==
    \/ \E p \in Procs, s \in live, t \in UserFS : CallScanFS(p, s, t)
    \/ \E p \in Procs, e \in ParseErrs : ParseFail(p, e)
    \/ \E p \in Procs : Parse(p)
    \/ \E p \in Procs : \E o \in MapOrders(DOMAIN k8sFilesets[p]) : Flatten(p, o)
    \/ \E p \in Procs : Lock(p)
    \/ \E p \in Procs : CheckCache(p)
    \/ \E p \in Procs : NewRegoScanner(p)
    \/ \E p \in Procs : LoadPolicies(p)
    \/ \E p \in Procs, e \in LoadErrs : LoadPoliciesFail(p, e)
    \/ \E p \in Procs : StoreEngine(p)
    \/ \E p \in Procs, e \in EvalErrs : ScanInputFail(p, e)
    \/ \E p \in Procs : Evaluate(p)

SpecTwo == InitTwo /\ [][NextScanFS]_vars

\* ------------------------------------------------------- the rule's test
\* the loop of TestCheckRequireNumbersInPasswords: some result has the status
\* failed and the identifier of the rule
Found(results, rule) ==
    \E i \in 1..Len(results) : results[i].status = "failed" /\ results[i].rule = rule

\* ------------------------------------------------------- fair scheduling
\* a step of the call of p: the goroutine runs, and the parser, the policy
\* loader or the evaluation it is in returns
CallStep(p) ==
    \/ \E e \in ParseErrs : ParseFail(p, e)
    \/ Parse(p)
    \/ \E o \in MapOrders(DOMAIN k8sFilesets[p]) : Flatten(p, o)
    \/ Lock(p)
    \/ CheckCache(p)
    \/ NewRegoScanner(p)
    \/ LoadPolicies(p)
    \/ \E e \in LoadErrs : LoadPoliciesFail(p, e)
    \/ StoreEngine(p)
    \/ \E e \in EvalErrs : ScanInputFail(p, e)
    \/ Evaluate(p)

\* ScanFS calls on one scanner, every goroutine that can take a step
\* eventually taking one
FairSpec == Init /\ [][NextScanFS]_vars /\ \A p \in Procs : WF_vars(CallStep(p))

\* =================================================================== claims
\* step x is among the steps the call of p has taken
Has(p, x) == \E i \in 1..Len(trace[p]) : trace[p][i] = x
Last(q) == q[Len(q)]
Returned(p) == pc[p] = "done"

\* the call of p is inside the check-and-construct section of initRegoScanner
InSection(p) == pc[p] \in {"check", "new", "load", "store"}

\* a step of the call of p
StepOf(p) == pc'[p] # pc[p] \/ trace'[p] # trace[p]

\* the steps of initRegoScanner, and those of evaluation
InitSteps == {"lock", "check", "new", "load", "loadErr", "store", "unlock"}
EvalSteps == {"eval", "evalErr", "annotate"}

\* the engines of s whose LoadPolicies succeeded, and those whose it failed
Loaded(s) ==
    {e \in 1..Len(engines) : engines[e].owner = s /\ engines[e].state = "loaded"}
Failed(s) ==
    {e \in 1..Len(engines) : engines[e].owner = s /\ engines[e].state = "failed"}

\* the call of p is in ScanInput or has been
Evaluating(p) == pc[p] = "eval" \/ Has(p, "eval") \/ Has(p, "evalErr")

\* the parser returned a mapping to the call of p, and what it held
Parsed(p) == Has(p, "parse")
ParsedOf(p) == ParseFS(tree[target[p]])
RECURSIVE DocCount(_, _)
DocCount(m, keys) ==
    IF keys = {} THEN 0
    ELSE LET k == CHOOSE x \in keys : TRUE
         IN Len(m[k]) + DocCount(m, keys \ {k})
TotalDocs(p) == DocCount(ParsedOf(p), DOMAIN ParsedOf(p))

\* C1: while no policy load has failed on a scanner, its engine has been built
\* and loaded at most once however many calls run at the same time, and every
\* call that reached evaluation holds that one engine, the cached one.
C1_SingleConstruction ==
    \A s \in live :
        Failed(s) = {} =>
            /\ newCalls[s] <= 1
            /\ loadCalls[s] <= 1
            /\ \A p \in Procs :
                   (pc[p] # "idle" /\ self[p] = s /\ Evaluating(p)) =>
                       /\ newCalls[s] = 1
                       /\ eng[p] # 0
                       /\ eng[p] = regoScanner[s]

\* every call is a ScanFS inside evaluation at the same moment, one of them
\* having built the engine
C1_Witness ==
    /\ \A p \in Procs : pc[p] = "eval" /\ entry[p] = "ScanFS"
    /\ \E p \in Procs : Has(p, "new")
    /\ newCalls["s1"] = 1

\* C2 (as stated): at most one engine is ever constructed for a scanner.
C2_AtMostOneConstructed == \A s \in live : newCalls[s] <= 1

\* C2 (amended): at most one engine of a scanner is ever loaded successfully,
\* the cached engine is that one, and every further construction is one whose
\* policy load failed.
C2_AtMostOneLoaded ==
    \A s \in live :
        /\ Cardinality(Loaded(s)) <= 1
        /\ regoScanner[s] # 0 => Loaded(s) = {regoScanner[s]}
        /\ newCalls[s] <= 1 + Cardinality(Failed(s))

\* a load failed, a later call built a second engine, and that one is cached
C2_Witness ==
    /\ newCalls["s1"] >= 2
    /\ Failed("s1") # {}
    /\ regoScanner["s1"] # 0

\* C3: once the cached engine field is set, no step changes it and no step
\* calls LoadPolicies on that scanner again.
C3_CacheWrittenOnce ==
    [][\A s \in live :
          regoScanner[s] # 0 =>
              /\ regoScanner'[s] = regoScanner[s]
              /\ loadCalls'[s] = loadCalls[s]
              /\ newCalls'[s] = newCalls[s]]_vars

\* one call stored the engine, and a ScanReader call found it cached, evaluated
\* with it and returned
C3_Witness ==
    \E p, q \in Procs :
        /\ Has(p, "store")
        /\ Returned(q) /\ entry[q] = "ScanReader"
        /\ Has(q, "check") /\ ~Has(q, "new") /\ Has(q, "eval")
        /\ eng[q] = regoScanner["s1"]

\* C4: a call to which the parser returned an empty mapping returns (nil, nil)
\* having taken no step of initRegoScanner and none of evaluation: no lock, no
\* engine built, no policy loaded, no write of the cached engine field.
C4_EmptyShortCircuit ==
    \A p \in Procs :
        (Parsed(p) /\ DOMAIN ParsedOf(p) = {}) =>
            /\ Returned(p)
            /\ ret[p] = [res |-> NilResults, err |-> NoErr]
            /\ eng[p] = 0
            /\ \A x \in InitSteps \cup EvalSteps : ~Has(p, x)

\* a ScanFS on the filesystem that holds nothing the parser recognises returned
C4_Witness ==
    \E p \in Procs :
        /\ Returned(p) /\ Parsed(p) /\ DOMAIN ParsedOf(p) = {}
        /\ target[p] = <<"fs", 3>>

\* C5 (as stated): a call to which the parser returned a non-empty mapping with
\* no document in it behaves as in the empty case: no engine built, no
\* evaluation, an empty result and no error.
C5_ZeroDocsShortCircuit ==
    \A p \in Procs :
        (Parsed(p) /\ DOMAIN ParsedOf(p) # {} /\ TotalDocs(p) = 0) =>
            /\ \A x \in {"new", "load", "loadErr", "store"} \cup EvalSteps : ~Has(p, x)
            /\ Returned(p) => (ret[p].err = NoErr /\ ret[p].res.items = <<>>)

\* C6: a call whose parser failed has returned exactly the parser's error with
\* a nil result, having taken no step of initRegoScanner and none of
\* evaluation, so without a write of the cached engine field.
C6_ParseErrorPropagated ==
    \A p \in Procs :
        Has(p, "parseErr") =>
            /\ Returned(p)
            /\ trace[p][Len(trace[p]) - 1] = "parseErr"
            /\ ret[p] = [res |-> NilResults, err |-> Last(trace[p])]
            /\ ret[p].err \in ParseErrs
            /\ eng[p] = 0
            /\ \A x \in InitSteps \cup EvalSteps : ~Has(p, x)

\* a call returned the parser's cancellation error while the cache was unset
C6_Witness ==
    \E p \in Procs :
        /\ Has(p, "parseErr") /\ ret[p].err = "context canceled"
        /\ regoScanner["s1"] = 0

\* C7: a call whose policy load failed has returned exactly that error with a
\* nil result and without evaluating; the failing step leaves the cached
\* engine field unset and frees the lock; a call that finds the field unset,
\* whatever failed before it, builds an engine and loads policies, and a call
\* whose load succeeded caches the engine it built.
C7_Returned ==
    \A p \in Procs :
        Has(p, "loadErr") =>
            /\ Returned(p)
            /\ trace[p][Len(trace[p]) - 2] = "loadErr"
            /\ ret[p] = [res |-> NilResults, err |-> trace[p][Len(trace[p]) - 1]]
            /\ ret[p].err \in LoadErrs
            /\ eng[p] = 0
            /\ \A x \in EvalSteps \cup {"store"} : ~Has(p, x)

C7_Steps ==
    \A p \in Procs :
        /\ (pc[p] = "load" /\ pc'[p] = "done") =>
               (regoScanner'[self[p]] = 0 /\ mu'[self[p]] = 0)
        /\ (pc[p] = "check" /\ pc'[p] # "check" /\ regoScanner[self[p]] = 0) =>
               (pc'[p] = "new" /\ regoScanner'[self[p]] = 0)
        /\ (pc[p] = "new" /\ pc'[p] # "new") =>
               (pc'[p] = "load" /\ newCalls'[self[p]] = newCalls[self[p]] + 1)
        /\ (pc[p] = "load" /\ pc'[p] # "load") =>
               loadCalls'[self[p]] = loadCalls[self[p]] + 1
        /\ (pc[p] = "store" /\ pc'[p] # "store") =>
               (regoScanner'[self[p]] = eng[p] /\ engines[eng[p]].state = "loaded")

\* C7: both parts, what a call whose load failed returned and what the steps
\* around a failed load do
C7_LoadFailureRetried == []C7_Returned /\ [][C7_Steps]_vars

\* one call returned the load error, and a later call built, loaded and cached
\* an engine and returned results
C7_Witness ==
    \E p, q \in Procs :
        /\ Has(p, "loadErr") /\ ret[p].err = "PolicyLoadError"
        /\ Returned(q) /\ Has(q, "store") /\ ret[q].err = NoErr
        /\ regoScanner["s1"] = eng[q]

\* C8: the results of a call that evaluated successfully are not nil, and each
\* of them carries the empty source label, the filesystem handle of that call
\* and mixed-filesystem = false, set once; the annotation is the one step that
\* follows the evaluation, and a call that returned an error annotated nothing.
C8_Provenance ==
    \A p \in Procs :
        /\ (Returned(p) /\ Has(p, "eval")) =>
               /\ ret[p].err = NoErr /\ ~ret[p].res.isNil
               /\ Last(trace[p]) = "annotate"
               /\ trace[p][Len(trace[p]) - 1] = "eval"
               /\ Cardinality({i \in 1..Len(trace[p]) : trace[p][i] = "annotate"}) = 1
               /\ \A i \in 1..Len(ret[p].res.items) :
                      LET f == ret[p].res.items[i]
                      IN /\ f.source = ""
                         /\ f.fs = target[p]
                         /\ f.mixed = FALSE
                         /\ f.nset = 1
        /\ (Returned(p) /\ ret[p].err # NoErr) =>
               (~Has(p, "annotate") /\ ret[p].res = NilResults)

\* a ScanFS on the filesystem with two manifests returned findings
C8_Witness ==
    \E p \in Procs :
        /\ Returned(p) /\ ret[p].err = NoErr
        /\ target[p] = <<"fs", 1>>
        /\ Len(ret[p].res.items) >= 2

\* the lock of a scanner is held only by a call inside the check-and-construct
\* section of initRegoScanner on that scanner, never by one parsing, building
\* inputs, evaluating or returned
LockOnlyInInit ==
    \A s \in live :
        mu[s] # 0 =>
            /\ pc[mu[s]] \in {"check", "new", "load", "store"}
            /\ self[mu[s]] = s

\* C9 (as stated): the lock is held only inside the check-and-construct
\* section, and a call waiting for it while the engine is cached waits only
\* for a call that is constructing or loading.
C9_BlockedOnlyByBuilder ==
    /\ LockOnlyInInit
    /\ \A p \in Procs :
           (pc[p] = "lock" /\ mu[self[p]] # 0 /\ regoScanner[self[p]] # 0) =>
               pc[mu[self[p]]] \in {"new", "load", "store"}

\* C9 (amended): the lock is held only inside the check-and-construct section,
\* never during parsing or evaluation, and a call waiting for it waits for a
\* call inside that section: one constructing or loading while the engine is
\* not cached, one making its own cache check once it is.
C9_LockOnlyInInit ==
    /\ LockOnlyInInit
    /\ \A p \in Procs :
           (pc[p] = "lock" /\ mu[self[p]] # 0) =>
               IF regoScanner[self[p]] # 0
               THEN pc[mu[self[p]]] = "check"
               ELSE pc[mu[self[p]]] \in {"check", "new", "load", "store"}

\* the engine is built, two calls are inside evaluation at the same time and
\* the lock is free
C9_Witness ==
    \E p, q \in Procs :
        /\ p # q
        /\ pc[p] = "eval" /\ pc[q] = "eval"
        /\ Has(p, "store")
        /\ eng[p] = eng[q]
        /\ mu["s1"] = 0

\* C10: with the engine cached, a step that changes the policy-loading fields
\* changes neither the cached engine field nor any engine and loads nothing;
\* the engine's rules stay those of the fields as they were when it was
\* loaded, and every call that evaluated successfully did so with the cached
\* engine and returned findings of exactly its rules.
C10_Steps ==
    \A s \in live :
        regoScanner[s] # 0 =>
            /\ regoScanner'[s] = regoScanner[s]
            /\ engines'[regoScanner[s]] = engines[regoScanner[s]]
            /\ cfg'[s] # cfg[s] =>
                   /\ regoScanner' = regoScanner
                   /\ engines' = engines
                   /\ loadCalls' = loadCalls /\ newCalls' = newCalls

C10_Results ==
    \A p \in Procs :
        (Returned(p) /\ Has(p, "eval")) =>
            LET rules == RulesOf(engines[regoScanner[self[p]]].cfg)
            IN /\ eng[p] = regoScanner[self[p]]
               /\ Len(ret[p].res.items) = Len(rules) * TotalDocs(p)
               /\ \A i \in 1..Len(ret[p].res.items) :
                      \E r \in 1..Len(rules) : ret[p].res.items[i].rule = rules[r]

\* C10: both parts, what the setters leave alone once the engine is cached and
\* what later calls evaluate with
C10_SettersInertOnceCached == []C10_Results /\ [][C10_Steps]_vars

\* the engine was cached with no rule, a setter then asked for rules, and a
\* call made after that returned with no finding on two manifests
C10_Witness ==
    \E p, q \in Procs :
        /\ Has(p, "store") /\ q > p
        /\ RulesOf(cfg["s1"]) # RulesOf(engines[regoScanner["s1"]].cfg)
        /\ Returned(q) /\ Has(q, "eval") /\ ~Has(q, "new")
        /\ target[q] = <<"fs", 1>>
        /\ ret[q].res.items = <<>>

\* a call found the engine cached: it checked the cache and built nothing
CacheHitCall(p) == Has(p, "check") /\ ~Has(p, "new")

C11_State ==
    \A p \in Procs :
        /\ Has(p, "store") =>
               /\ regoScanner[self[p]] = eng[p]
               /\ engines[eng[p]].state = "loaded"
               /\ engines[eng[p]].fs = target[p]
        /\ CacheHitCall(p) =>
               /\ eng[p] = regoScanner[self[p]]
               /\ ~Has(p, "load") /\ ~Has(p, "loadErr") /\ ~Has(p, "store")
        /\ \A i \in 1..Len(inputs[p]) : inputs[p][i].FS = target[p]
        /\ (Returned(p) /\ Has(p, "eval")) =>
               \A i \in 1..Len(ret[p].res.items) : ret[p].res.items[i].fs = target[p]

C11_Steps ==
    \A p \in Procs :
        (pc[p] = "check" /\ pc'[p] # "check" /\ regoScanner[self[p]] # 0) =>
            /\ pc'[p] = "eval"
            /\ eng'[p] = regoScanner[self[p]]
            /\ regoScanner' = regoScanner
            /\ engines' = engines
            /\ loadCalls' = loadCalls /\ newCalls' = newCalls

\* C11: the engine a call cached was loaded with that call's own filesystem;
\* a call that finds an engine cached takes it as it is, whatever its own
\* filesystem, and nothing is built or loaded; the inputs and the provenance
\* of every call carry that call's filesystem.
C11_CacheKeyedByInstance == []C11_State /\ [][C11_Steps]_vars

\* a call on the memoryfs of a ScanReader found cached the engine that another
\* call had loaded with a caller's filesystem, and returned findings that carry
\* the memoryfs
C11_Witness ==
    \E q \in Procs :
        /\ Returned(q) /\ CacheHitCall(q) /\ Has(q, "eval")
        /\ entry[q] = "ScanReader"
        /\ engines[eng[q]].fs \in UserFS
        /\ engines[eng[q]].cfg # ZeroCfg
        /\ ret[q].res.items # <<>>
        /\ \A i \in 1..Len(ret[q].res.items) : ret[q].res.items[i].fs = MemFS(q)

\* the findings without their provenance: rule identifier and status of each
Verdicts(res) ==
    [i \in 1..Len(res.items) |->
        [rule |-> res.items[i].rule, status |-> res.items[i].status]]

\* the error a collaborator (parser, policy loader, evaluation) answered to the
\* call of p, if one did
CollabErr(p) ==
    LET at == {i \in 1..Len(trace[p]) : trace[p][i] \in {"parseErr", "loadErr", "evalErr"}}
    IN IF at = {} THEN NoErr ELSE trace[p][(CHOOSE i \in at : TRUE) + 1]

\* the call of p is ScanReader(name, bytes): the reader gave its bytes and the
\* memoryfs met no fault of its own
ReaderCall(p) == entry[p] = "ScanReader" /\ pc[p] # "idle" /\ ret[p].err \notin IOErrs

\* the call of q is a ScanFS on a filesystem that holds exactly the file the
\* ScanReader call of p was given, and the collaborators answered both alike
SameScan(p, q) ==
    /\ ReaderCall(p) /\ Returned(p)
    /\ entry[q] = "ScanFS" /\ Returned(q)
    /\ tree[target[q]] = (stream[p].filename :> stream[p].data)
    /\ CollabErr(p) = CollabErr(q)

\* C12 (as stated): ScanReader(name, bytes) goes into ScanFS on a memoryfs that
\* holds exactly the file name with those bytes, and returns the findings
\* (rule identifiers and statuses) and the error that ScanFS returns on a
\* filesystem holding exactly that file.
C12_StreamEquivalence ==
    /\ \A p \in Procs :
           ReaderCall(p) =>
               /\ target[p] = MemFS(p)
               /\ tree[MemFS(p)] = (stream[p].filename :> stream[p].data)
               /\ trace[p][1] = "memfs"
               /\ pc[p] = "parse" \/ Has(p, "parse") \/ Has(p, "parseErr")
    /\ \A p, q \in Procs :
           SameScan(p, q) =>
               /\ ret[p].err = ret[q].err
               /\ ret[p].res.isNil = ret[q].res.isNil
               /\ Verdicts(ret[p].res) = Verdicts(ret[q].res)

C13_State ==
    /\ \A s, t \in live :
           (s # t /\ regoScanner[s] # 0) => regoScanner[s] # regoScanner[t]
    /\ \A s \in live :
           /\ regoScanner[s] # 0 => engines[regoScanner[s]].owner = s
           /\ mu[s] # 0 => self[mu[s]] = s
    /\ \A p \in Procs :
           /\ eng[p] # 0 => engines[eng[p]].owner = self[p]
           /\ (pc[p] = "lock" /\ mu[self[p]] = 0) => ENABLED Lock(p)

C13_Steps ==
    \A p \in Procs :
        pc'[p] # pc[p] =>
            \A t \in live \ {self'[p]} :
                /\ regoScanner'[t] = regoScanner[t]
                /\ mu'[t] = mu[t]
                /\ newCalls'[t] = newCalls[t] /\ loadCalls'[t] = loadCalls[t]

\* C13: two scanners never hold the same engine, and each lock is held only by
\* a call on its own scanner; a step of a call on one scanner (building an
\* engine, failing to load, caching, taking or freeing the lock) leaves the
\* cached engine field and the lock of the other scanner as they were; and a
\* call waiting for the lock of its scanner can take it as soon as that lock
\* is free, whoever holds the lock of the other scanner.
C13_InstancesIndependent == []C13_State /\ [][C13_Steps]_vars

\* a call on each scanner is inside the check-and-construct section at the
\* same moment, each holding the lock of its own scanner: the first scanner has
\* its engine cached, the second is loading the policies of a new one
C13_Witness ==
    \E p, q \in Procs :
        /\ self[p] = "s1" /\ self[q] = "s2"
        /\ mu["s1"] = p /\ mu["s2"] = q
        /\ pc[p] = "check" /\ pc[q] = "load"
        /\ regoScanner["s1"] # 0 /\ regoScanner["s2"] = 0

\* the call of p evaluated exactly one document, and that document
OneDoc(p) == Returned(p) /\ Has(p, "eval") /\ TotalDocs(p) = 1
TheDoc(p) ==
    LET m == ParsedOf(p)
    IN m[CHOOSE k \in DOMAIN m : Len(m[k]) = 1][1]

\* C14: a call that evaluated one document returns, for each rule "fail if X
\* is false" of the engine, a finding with status failed and that rule's
\* identifier when X is false in the document, and no failed finding with that
\* rule's identifier when X is true.
C14_FailIffFalse ==
    \A p \in Procs :
        OneDoc(p) =>
            LET rules == RulesOf(engines[eng[p]].cfg)
            IN \A r \in 1..Len(rules) :
                   Found(ret[p].res.items, rules[r]) = ~TheDoc(p).X

\* one call evaluated a document whose X is false and returned a failed
\* finding of each of two rules; another evaluated a document whose X is true
\* and returned findings none of which is failed
C14_Witness ==
    \E p, q \in Procs :
        /\ OneDoc(p) /\ ~TheDoc(p).X
        /\ Len(RulesOf(engines[eng[p]].cfg)) = 2
        /\ Len(ret[p].res.items) = 2
        /\ \A i \in 1..2 : ret[p].res.items[i].status = "failed"
        /\ OneDoc(q) /\ TheDoc(q).X
        /\ Len(ret[q].res.items) = 2
        /\ \A i \in 1..2 : ret[q].res.items[i].status # "failed"

\* the call of p has built its inputs and not returned yet
Built(p) == Has(p, "inputs") /\ ~Returned(p)

\* the places in the inputs of p that carry the path k
PlacesOf(p, k) == {i \in 1..Len(inputs[p]) : inputs[p][i].Path = k}
Least(S) == CHOOSE i \in S : \A j \in S : i <= j

\* C15: the inputs of a call are as many as the documents of the parsed
\* mapping; each carries a path of the mapping and the filesystem of the
\* call; and the inputs of one path are as many as its documents, stand next
\* to one another and carry its documents in the parser's order.
C15_OneInputPerDocument ==
    \A p \in Procs :
        Built(p) =>
            LET m == ParsedOf(p)
            IN /\ Len(inputs[p]) = TotalDocs(p)
               /\ \A i \in 1..Len(inputs[p]) :
                      /\ inputs[p][i].Path \in DOMAIN m
                      /\ inputs[p][i].FS = target[p]
               /\ \A k \in DOMAIN m :
                      LET at == PlacesOf(p, k)
                      IN /\ Cardinality(at) = Len(m[k])
                         /\ at # {} =>
                                /\ at = Least(at)..(Least(at) + Len(m[k]) - 1)
                                /\ \A i \in at :
                                       inputs[p][i].Contents = m[k][i - Least(at) + 1]

\* a call on the filesystem with several files is inside evaluation with four
\* inputs, the one of b.yaml first and then the three of a.yaml, two of which
\* are equal documents
C15_Witness ==
    \E p \in Procs :
        /\ pc[p] = "eval" /\ target[p] = <<"fs", 2>>
        /\ Len(inputs[p]) = 4
        /\ inputs[p][1].Path = <<"b.yaml">>
        /\ inputs[p][2].Path = <<"a.yaml">>
        /\ inputs[p][3].Contents = inputs[p][4].Contents
        /\ inputs[p][2].Contents # inputs[p][3].Contents

\* the part of ScanFS a step belongs to: 1 parse, 2 build inputs, 3 obtain the
\* engine, 4 evaluate, 5 annotate; 0 is ScanReader's own part, and the error
\* values recorded after a failed step belong to none
Phase(x) ==
    CASE x = "memfs" -> 0
      [] x \in {"parse", "parseErr"} -> 1
      [] x = "inputs" -> 2
      [] x \in InitSteps -> 3
      [] x \in {"eval", "evalErr"} -> 4
      [] x = "annotate" -> 5
      [] OTHER -> -1
IsStep(x) == Phase(x) >= 0
StepsOf(p) == SelectSeq(trace[p], IsStep)
Times(p, xs) == Cardinality({i \in 1..Len(trace[p]) : trace[p][i] \in xs})

\* the part of ScanFS a call is in, 6 once it has returned
PartOf(at) ==
    CASE at = "idle" -> 0
      [] at = "parse" -> 1
      [] at = "inputs" -> 2
      [] at \in {"lock", "check", "new", "load", "store"} -> 3
      [] at = "eval" -> 4
      [] OTHER -> 6

C16_Order ==
    \A p \in Procs :
        /\ Times(p, {"eval", "evalErr"}) <= 1
        /\ Has(p, "annotate") =>
               /\ Returned(p)
               /\ Last(trace[p]) = "annotate"
               /\ trace[p][Len(trace[p]) - 1] = "eval"

C16_Steps ==
    \A p \in Procs :
        (StepOf(p) /\ pc[p] # "idle") =>
            LET was == PartOf(pc[p])
                now == PartOf(pc'[p])
            IN /\ Len(trace'[p]) > Len(trace[p])
               /\ SubSeq(trace'[p], 1, Len(trace[p])) = trace[p]
               /\ Phase(trace'[p][Len(trace[p]) + 1]) = was
               /\ \A i \in (Len(trace[p]) + 1)..Len(trace'[p]) :
                      IsStep(trace'[p][i]) => Phase(trace'[p][i]) >= was
               /\ now \in {was + 1, 6} \/ (was = 3 /\ now = 3)
               /\ was = 4 =>
                      /\ now = 6
                      /\ ret'[p].err = NoErr =>
                             LET rules == RulesOf(engines[eng[p]].cfg)
                                 items == ret'[p].res.items
                                 n == Len(rules)
                             IN /\ Len(items) = n * Len(inputs[p])
                                /\ \A i \in 1..Len(inputs[p]) :
                                       \A r \in 1..n :
                                           LET f == items[(i - 1) * n + r]
                                           IN /\ f.rule = rules[r]
                                              /\ f.path = inputs[p][i].Path
                                              /\ (f.status = "failed")
                                                     = ~inputs[p][i].Contents.X

\* C16: a call evaluates at most once, and annotates only as the last step,
\* right after a successful evaluation; every step of a call belongs to the
\* part of ScanFS the call is in and takes it to the next part or to its
\* return (parse, build inputs, obtain the engine, evaluate and annotate, in
\* this order, none skipped and none entered again); the one evaluation step
\* ends the call, after a failure too, and on success its findings are those
\* of every input of the call.
C16_OneEvaluationInOrder == []C16_Order /\ [][C16_Steps]_vars

\* one call went through every part and returned the findings of two inputs
\* from its one evaluation; another returned after its one evaluation failed
C16_Witness ==
    \E p, q \in Procs :
        /\ Returned(p)
        /\ StepsOf(p) = <<"parse", "inputs", "lock", "check", "new", "load",
                          "store", "unlock", "eval", "annotate">>
        /\ Len(ret[p].res.items) = 2
        /\ ret[p].res.items[1].status # ret[p].res.items[2].status
        /\ Returned(q) /\ Times(q, {"evalErr"}) = 1 /\ ret[q].err \in EvalErrs

C17_State ==
    \A p \in Procs :
        /\ Has(p, "evalErr") =>
               /\ Returned(p)
               /\ trace[p][Len(trace[p]) - 1] = "evalErr"
               /\ ret[p] = [res |-> NilResults, err |-> Last(trace[p])]
               /\ ret[p].err \in EvalErrs
               /\ ~Has(p, "annotate") /\ ~Has(p, "eval")
               /\ eng[p] # 0 /\ regoScanner[self[p]] = eng[p]
               /\ engines[eng[p]].state = "loaded"
        /\ (Returned(p) /\ ret[p].err # NoErr) => ret[p].res = NilResults

C17_Steps ==
    \A p \in Procs :
        (pc[p] = "eval" /\ pc'[p] = "done") =>
            /\ regoScanner' = regoScanner
            /\ engines' = engines
            /\ loadCalls' = loadCalls /\ newCalls' = newCalls
            /\ mu' = mu

\* C17: a call whose evaluation failed has returned exactly that error with a
\* nil result and without annotating, the engine it evaluated with still the
\* cached one; the step that ends an evaluation changes neither the cached
\* engine field nor any engine and loads nothing; and every call that returned
\* an error returned a nil result.
C17_EvalErrorPropagated == []C17_State /\ [][C17_Steps]_vars

\* one call built the engine and returned the deadline error of its
\* evaluation; a later call found that engine cached and returned results, the
\* policies having been loaded once
C17_Witness ==
    \E p, q \in Procs :
        /\ Has(p, "store") /\ ret[p].err = "context deadline exceeded"
        /\ q > p /\ CacheHitCall(q) /\ Returned(q) /\ Has(q, "eval")
        /\ eng[q] = eng[p]
        /\ loadCalls[self[p]] = 1

C18_State ==
    /\ \A p \in Procs : InSection(p) => mu[self[p]] = p
    /\ \A p, q \in Procs :
           (InSection(p) /\ InSection(q) /\ self[p] = self[q]) => p = q

C18_Steps ==
    /\ \A s \in live :
           regoScanner'[s] # regoScanner[s] =>
               /\ mu[s] # 0 /\ self[mu[s]] = s /\ pc[mu[s]] = "store"
               /\ regoScanner'[s] = eng[mu[s]]
    /\ \A p \in Procs :
           /\ (eng'[p] # eng[p] /\ eng'[p] # 0 /\ eng'[p] = regoScanner[self[p]]) =>
                  (pc[p] = "check" /\ mu[self[p]] = p)
           /\ StepOf(p) =>
                  /\ cfg' = cfg /\ live' = live
                  /\ \A q \in Procs \ {p} :
                         /\ k8sFilesets'[q] = k8sFilesets[q]
                         /\ inputs'[q] = inputs[q]
                         /\ ret'[q] = ret[q]
                         /\ eng'[q] = eng[q]
                         /\ target'[q] = target[q]

\* C18: a call inside the check-and-construct section holds the lock of its
\* scanner, so at most one call per scanner is inside it; the cached engine
\* field is written only by the lock holder at its store and read only by the
\* lock holder at its check; and a step of a call changes no configuration
\* field of any scanner and no parsed mapping, inputs, engine handle, target
\* or result of another call.
C18_OnlyCacheSharedUnderLock == []C18_State /\ [][C18_Steps]_vars

\* with policy readers set on the scanner, one call has stored the engine it
\* built and another, holding the lock, is at its cache check about to read it
C18_Witness ==
    \E p, q \in Procs :
        /\ Has(p, "store") /\ regoScanner["s1"] = eng[p]
        /\ engines[eng[p]].cfg.policyReaders # <<>>
        /\ cfg["s1"] = engines[eng[p]].cfg
        /\ pc[q] = "check" /\ mu["s1"] = q

\* the calls that hold engine e
Holders(e) == {p \in Procs : eng[p] = e}

\* C19: the cached engine of a scanner is one whose policies were loaded
\* without error, and so is the engine of every call that is evaluating or
\* has evaluated; an engine whose load has not returned is held by the one
\* call that built it, which is at its load inside the lock, and an engine
\* whose load failed is held by no call and cached nowhere.
C19_OnlyLoadedEnginesVisible ==
    /\ \A s \in live :
           regoScanner[s] # 0 => engines[regoScanner[s]].state = "loaded"
    /\ \A p \in Procs :
           (pc[p] # "idle" /\ Evaluating(p)) =>
               (eng[p] # 0 /\ engines[eng[p]].state = "loaded")
    /\ \A e \in 1..Len(engines) :
           /\ engines[e].state = "new" =>
                  \E p \in Procs :
                      /\ Holders(e) = {p}
                      /\ pc[p] = "load" /\ mu[self[p]] = p
           /\ engines[e].state = "failed" =>
                  /\ Holders(e) = {}
                  /\ \A s \in live : regoScanner[s] # e

\* one call is loading the policies of the engine it built while another
\* waits for the lock, the cache being unset
C19_Witness ==
    \E p, q \in Procs :
        /\ pc[p] = "load" /\ engines[eng[p]].state = "new"
        /\ pc[q] = "lock" /\ mu[self[q]] = p
        /\ regoScanner["s1"] = 0

\* the call of p is running: entered and not returned
Running(p) == pc[p] \notin {"idle", "done"}

C20_UnlockOnExit ==
    \A p \in Procs :
        (InSection(p) /\ ~InSection(p)') =>
            /\ mu[self[p]] = p
            /\ mu'[self[p]] = 0
            /\ pc'[p] \in {"eval", "done"}

C20_Returns == \A p \in Procs : Running(p) ~> Returned(p)

C20_LockWaitEnds ==
    \A p \in Procs : (pc[p] = "lock" /\ mu[self[p]] # 0) ~> Has(p, "lock")

\* C20: a call leaves the check-and-construct section only by a step that
\* frees the lock (cache hit, load failure, store); under fair scheduling every
\* running call returns, and every call that waits for the lock gets it.
C20_EveryCallReturns ==
    /\ [][C20_UnlockOnExit]_vars
    /\ C20_Returns
    /\ C20_LockWaitEnds

\* every call has returned and the lock is free, one of them with the error of
\* its policy load and another, which came to the lock after it, with results
C20_Witness ==
    /\ \A p \in Procs : Returned(p)
    /\ mu["s1"] = 0
    /\ \E p, q \in Procs :
           /\ Has(p, "loadErr")
           /\ Has(q, "store") /\ Has(q, "eval")
====
